---- MODULE Spec2Model ----
(***************************************************************************)
(* Payment checkout facade: PaymentMode, AmountValidator, the payment      *)
(* processors and CheckoutService (checkout.py, payment_mode.py,           *)
(* config.py, exceptions.py).                                              *)
(*                                                                         *)
(* Python values are records [kind, val]: kind is the Python type, val its *)
(* content.  A string is a sequence of one-character strings.  A Decimal   *)
(* is kept the way the decimal module keeps it: sign, coefficient digits   *)
(* and exponent, so that Decimal(str(x)), the comparisons and quantize are    *)
(* computed on digits as the library computes them.                        *)
(***************************************************************************)
EXTENDS Integers, Sequences, FiniteSets, TLC

(***************************************************************************)
(* Bounds of the model.                                                    *)
(***************************************************************************)
\* half-width, in thousandths, of the windows of amounts around both limits
Window == 16

\* seeds of the per-process string hash
MaxSeed == 1

\* threads that call checkout at the same time
NumThreads == 2

(***************************************************************************)
(* Characters and digits.                                                  *)
(***************************************************************************)
DigitChars == <<"0", "1", "2", "3", "4", "5", "6", "7", "8", "9">>

DigitChar(d) == DigitChars[d + 1]

IsDigit(c) == \E d \in 0..9 : DigitChars[d + 1] = c

DigitVal(c) == CHOOSE d \in 0..9 : DigitChars[d + 1] = c

Abs(n) == IF n < 0 THEN -n ELSE n

RECURSIVE NatToStr(_)
NatToStr(n) ==
    IF n < 10 THEN <<DigitChar(n)>>
    ELSE Append(NatToStr(n \div 10), DigitChar(n % 10))

\* str(int)
IntToStr(n) == IF n < 0 THEN <<"-">> \o NatToStr(-n) ELSE NatToStr(n)

RECURSIVE Zeros(_)
Zeros(n) == IF n <= 0 THEN <<>> ELSE <<0>> \o Zeros(n - 1)

RECURSIVE DigitsToChars(_)
DigitsToChars(ds) ==
    IF ds = <<>> THEN <<>>
    ELSE <<DigitChar(Head(ds))>> \o DigitsToChars(Tail(ds))

RECURSIVE CharsToDigits(_)
CharsToDigits(cs) ==
    IF cs = <<>> THEN <<>>
    ELSE <<DigitVal(Head(cs))>> \o CharsToDigits(Tail(cs))

RECURSIVE DigitsToNat(_)
DigitsToNat(ds) ==
    IF ds = <<>> THEN 0
    ELSE 10 * DigitsToNat(SubSeq(ds, 1, Len(ds) - 1)) + ds[Len(ds)]

NatToDigits(n) == CharsToDigits(NatToStr(n))

RECURSIVE StripLeadingZeros(_)
StripLeadingZeros(ds) ==
    IF Len(ds) > 1 /\ Head(ds) = 0 THEN StripLeadingZeros(Tail(ds)) ELSE ds

RECURSIVE StripTrailingZeros(_)
StripTrailingZeros(ds) ==
    IF Len(ds) > 1 /\ ds[Len(ds)] = 0
    THEN StripTrailingZeros(SubSeq(ds, 1, Len(ds) - 1))
    ELSE ds

AllZero(ds) == \A i \in 1..Len(ds) : ds[i] = 0

\* str.lower() on the letters the decimal grammar knows
LowerChar(c) ==
    CASE c = "I" -> "i" [] c = "N" -> "n" [] c = "F" -> "f" [] c = "A" -> "a"
      [] c = "T" -> "t" [] c = "Y" -> "y" [] c = "E" -> "e"
      [] OTHER -> c

(***************************************************************************)
(* decimal.Decimal: sign (0 or 1), coefficient digits, exponent; special   *)
(* is "" for a finite number, "inf" or "nan" otherwise.                    *)
(***************************************************************************)
Dec(sign, digits, exp) ==
    [special |-> "", sign |-> sign, digits |-> digits, exp |-> exp]

DecInf(sign) == [special |-> "inf", sign |-> sign, digits |-> <<0>>, exp |-> 0]

DecNaN(sign) == [special |-> "nan", sign |-> sign, digits |-> <<0>>, exp |-> 0]

\* Decimal built from an integer coefficient and an exponent
MkDec(coef, exp) == Dec(IF coef < 0 THEN 1 ELSE 0, NatToDigits(Abs(coef)), exp)

IsZeroDec(d) == d.special = "" /\ AllZero(d.digits)

\* Decimal.adjusted(): exponent of the most significant digit
Adjusted(d) == d.exp + Len(d.digits) - 1

\* the outcome of a call: a returned value or a raised exception
Return(v) == [tag |-> "return", value |-> v]

Raise(e) == [tag |-> "raise", value |-> e]

\* decimal.InvalidOperation, which is no PaymentError
InvalidOperation ==
    [type |-> "InvalidOperation", error_code |-> "", detail |-> ""]

(***************************************************************************)
(* str(x) of the accepted amount types.                                    *)
(***************************************************************************)
\* repr of a float whose shortest decimal form has at most three decimals
\* (val.mills thousandths), or of nan, inf, -inf.  Such a float of magnitude
\* in [0.001, 1e16) prints positionally with at least one decimal.
FloatRepr(f) ==
    CASE f.special = "nan" -> <<"n", "a", "n">>
      [] f.special = "inf" -> <<"i", "n", "f">>
      [] f.special = "-inf" -> <<"-", "i", "n", "f">>
      [] OTHER ->
           LET a == Abs(f.mills)
               frac == StripTrailingZeros(
                           <<(a \div 100) % 10, (a \div 10) % 10, a % 10>>)
           IN  (IF f.mills < 0 THEN <<"-">> ELSE <<>>)
                   \o NatToStr(a \div 1000) \o <<".">> \o DigitsToChars(frac)

\* "%+d"
SignedIntToStr(n) == (IF n < 0 THEN <<"-">> ELSE <<"+">>) \o NatToStr(Abs(n))

\* Decimal.__str__
DecimalStr(d) ==
    LET sign == IF d.sign = 1 THEN <<"-">> ELSE <<>>
        n == Len(d.digits)
        leftdigits == d.exp + n
        dotplace == IF d.exp <= 0 /\ leftdigits > -6 THEN leftdigits ELSE 1
        intpart ==
            IF dotplace <= 0 THEN <<0>>
            ELSE IF dotplace >= n THEN d.digits \o Zeros(dotplace - n)
            ELSE SubSeq(d.digits, 1, dotplace)
        fracpart ==
            IF dotplace <= 0
            THEN <<".">> \o DigitsToChars(Zeros(-dotplace) \o d.digits)
            ELSE IF dotplace >= n THEN <<>>
            ELSE <<".">> \o DigitsToChars(SubSeq(d.digits, dotplace + 1, n))
        exppart ==
            IF leftdigits = dotplace THEN <<>>
            ELSE <<"E">> \o SignedIntToStr(leftdigits - dotplace)
    IN  CASE d.special = "inf" ->
               sign \o <<"I", "n", "f", "i", "n", "i", "t", "y">>
          [] d.special = "nan" -> sign \o <<"N", "a", "N">>
          [] OTHER -> sign \o DigitsToChars(intpart) \o fracpart \o exppart

\* str(amount) for an amount that passed the isinstance test
PyStr(a) ==
    CASE a.kind = "int" -> IntToStr(a.val)
      [] a.kind = "bool" ->
           IF a.val THEN <<"T", "r", "u", "e">> ELSE <<"F", "a", "l", "s", "e">>
      [] a.kind = "float" -> FloatRepr(a.val)
      [] a.kind = "Decimal" -> DecimalStr(a.val)
      [] a.kind = "str" -> a.val

(***************************************************************************)
(* Decimal(string): [sign] (digits [. digits] | . digits) [E [sign]        *)
(* digits] | [sign] Inf[inity] | [sign] NaN, letters in either case.       *)
(***************************************************************************)
RECURSIVE DigitPrefixLen(_)
DigitPrefixLen(s) ==
    IF s # <<>> /\ IsDigit(Head(s)) THEN 1 + DigitPrefixLen(Tail(s)) ELSE 0

RECURSIVE LowerSeq(_)
LowerSeq(s) ==
    IF s = <<>> THEN <<>> ELSE <<LowerChar(Head(s))>> \o LowerSeq(Tail(s))

\* the coefficient and exponent of a number whose parts matched
MakeNumber(sign, intpart, fracpart, exp) ==
    Return(Dec(sign, StripLeadingZeros(CharsToDigits(intpart \o fracpart)),
               exp - Len(fracpart)))

\* after the E: an optional sign and at least one digit, up to the end
ParseExponentDigits(sign, intpart, fracpart, rest) ==
    LET negative == rest # <<>> /\ Head(rest) = "-"
        digits == IF rest # <<>> /\ Head(rest) \in {"-", "+"}
                  THEN Tail(rest) ELSE rest
    IN  IF digits = <<>> \/ DigitPrefixLen(digits) # Len(digits)
        THEN Raise(InvalidOperation)
        ELSE MakeNumber(sign, intpart, fracpart,
                        IF negative THEN -DigitsToNat(CharsToDigits(digits))
                        ELSE DigitsToNat(CharsToDigits(digits)))

\* after the integer and fraction digits: the end, or an exponent
ParseExponent(sign, intpart, fracpart, rest) ==
    IF intpart = <<>> /\ fracpart = <<>> THEN Raise(InvalidOperation)
    ELSE IF rest = <<>> THEN MakeNumber(sign, intpart, fracpart, 0)
    ELSE IF Head(rest) # "e" THEN Raise(InvalidOperation)
    ELSE ParseExponentDigits(sign, intpart, fracpart, Tail(rest))

\* after the integer digits: an optional point and fraction digits
ParseFraction(sign, intpart, rest) ==
    IF rest # <<>> /\ Head(rest) = "."
    THEN ParseExponent(sign, intpart,
             SubSeq(Tail(rest), 1, DigitPrefixLen(Tail(rest))),
             SubSeq(Tail(rest), DigitPrefixLen(Tail(rest)) + 1, Len(Tail(rest))))
    ELSE ParseExponent(sign, intpart, <<>>, rest)

\* the lower-cased string after its sign
ParseUnsigned(sign, body) ==
    IF body \in {<<"i", "n", "f">>, <<"i", "n", "f", "i", "n", "i", "t", "y">>}
    THEN Return(DecInf(sign))
    ELSE IF body = <<"n", "a", "n">> THEN Return(DecNaN(sign))
    ELSE ParseFraction(sign, SubSeq(body, 1, DigitPrefixLen(body)),
                       SubSeq(body, DigitPrefixLen(body) + 1, Len(body)))

ParseDecimal(s) ==
    IF s # <<>> /\ Head(s) \in {"-", "+"}
    THEN ParseUnsigned(IF Head(s) = "-" THEN 1 ELSE 0, LowerSeq(Tail(s)))
    ELSE ParseUnsigned(0, LowerSeq(s))

(***************************************************************************)
(* Decimal comparison (Decimal._cmp) and quantize under the default        *)
(* context: precision 28, ROUND_HALF_EVEN.                                 *)
(***************************************************************************)
RECURSIVE LexCmp(_, _)
\* comparison of two digit sequences of equal length: -1, 0 or 1
LexCmp(x, y) ==
    IF x = <<>> THEN 0
    ELSE IF Head(x) < Head(y) THEN -1
    ELSE IF Head(x) > Head(y) THEN 1
    ELSE LexCmp(Tail(x), Tail(y))

SignFactor(d) == IF d.sign = 1 THEN -1 ELSE 1

\* Decimal._cmp for operands that are no NaN
DecCmp(a, b) ==
    LET ainf == IF a.special = "inf" THEN SignFactor(a) ELSE 0
        binf == IF b.special = "inf" THEN SignFactor(b) ELSE 0
        apad == a.digits \o Zeros(a.exp - b.exp)
        bpad == b.digits \o Zeros(b.exp - a.exp)
    IN  IF a.special = "inf" \/ b.special = "inf"
        THEN (IF ainf = binf THEN 0 ELSE IF ainf < binf THEN -1 ELSE 1)
        ELSE IF IsZeroDec(a)
        THEN (IF IsZeroDec(b) THEN 0 ELSE -SignFactor(b))
        ELSE IF IsZeroDec(b) THEN SignFactor(a)
        ELSE IF b.sign < a.sign THEN -1
        ELSE IF a.sign < b.sign THEN 1
        ELSE IF Adjusted(a) = Adjusted(b)
        THEN SignFactor(a) * LexCmp(apad, bpad)
        ELSE IF Adjusted(a) > Adjusted(b) THEN SignFactor(a)
        ELSE -SignFactor(a)

RECURSIVE IncDigits(_)
\* str(int(coeff) + 1)
IncDigits(ds) ==
    IF ds = <<>> THEN <<1>>
    ELSE IF ds[Len(ds)] < 9
    THEN SubSeq(ds, 1, Len(ds) - 1) \o <<ds[Len(ds)] + 1>>
    ELSE IncDigits(SubSeq(ds, 1, Len(ds) - 1)) \o <<0>>

\* Decimal._round_half_up: 1 to round away from zero, 0 when the discarded
\* digits are all zero, -1 to truncate; ds keeps its first prec digits
RoundHalfUp(ds, prec) ==
    IF ds[prec + 1] >= 5 THEN 1
    ELSE IF AllZero(SubSeq(ds, prec + 1, Len(ds))) THEN 0
    ELSE -1

\* a rounding that sends every tie away from zero
RoundTiesUp(ds, prec) == IF ds[prec + 1] >= 5 THEN 1 ELSE -1

\* Decimal._round_half_even, the rounding of the default context
RoundHalfEven(ds, prec) ==
    IF /\ ds[prec + 1] = 5
       /\ AllZero(SubSeq(ds, prec + 2, Len(ds)))
       /\ (prec = 0 \/ ds[prec] % 2 = 0)
    THEN -1
    ELSE RoundHalfUp(ds, prec)

\* Decimal._rescale(exp, ROUND_HALF_EVEN) of a finite number
Rescale(d, exp) ==
    IF AllZero(d.digits) THEN Dec(d.sign, <<0>>, exp)
    ELSE IF d.exp >= exp THEN Dec(d.sign, d.digits \o Zeros(d.exp - exp), exp)
    ELSE LET n == Len(d.digits) + d.exp - exp
             ds == IF n < 0 THEN <<1>> ELSE d.digits
             keep == IF n < 0 THEN 0 ELSE n
             changed == RoundHalfEven(ds, keep)
             coeff == IF keep = 0 THEN <<0>> ELSE SubSeq(ds, 1, keep)
         IN  Dec(d.sign,
                 IF changed = 1 THEN StripLeadingZeros(IncDigits(coeff))
                 ELSE coeff,
                 exp)

\* precision of the default decimal context
DefaultPrec == 28

\* a quantize that returns its operand as it is
QuantizeSkipped(d, exp) == Return(d)

\* Decimal.quantize(Decimal('0.01')): exp is the exponent of the pattern
Quantize(d, exp) ==
    IF d.special # "" THEN Raise(InvalidOperation)
    ELSE IF ~AllZero(d.digits) /\ Adjusted(d) - exp + 1 > DefaultPrec
    THEN Raise(InvalidOperation)
    ELSE Return(Rescale(d, exp))

(***************************************************************************)
(* config.py and exceptions.py.                                            *)
(***************************************************************************)
MIN_PAYMENT_AMOUNT == ParseDecimal(<<"0", ".", "0", "1">>).value

MAX_PAYMENT_AMOUNT ==
    ParseDecimal(<<"9", "9", "9", "9", "9", "9", ".", "9", "9">>).value

\* Decimal('0.01'), the pattern validate quantizes to
QUANTIZE_PATTERN == ParseDecimal(<<"0", ".", "0", "1">>).value

INVALID_AMOUNT_TYPE_ERROR == "Amount must be a number"

AMOUNT_TOO_LOW_ERROR == "Amount must be at least $0.01"

AMOUNT_TOO_HIGH_ERROR == "Amount cannot exceed $999999.99"

PAYMENT_SUCCESS_TEMPLATE ==
    "Successfully processed {payment_type} payment of ${amount:.2f}"

InvalidPaymentModeError(mode) ==
    [type |-> "InvalidPaymentModeError", error_code |-> "INVALID_PAYMENT_MODE",
     detail |-> mode]

InvalidAmountError(reason) ==
    [type |-> "InvalidAmountError", error_code |-> "INVALID_AMOUNT",
     detail |-> reason]

PaymentProcessingError(payment_mode) ==
    [type |-> "PaymentProcessingError", error_code |-> "PROCESSING_FAILED",
     detail |-> payment_mode]

\* a subclass that leaves error_code at the default of PaymentError, None
ProcessorNotFoundErrorUncoded(payment_mode) ==
    [type |-> "ProcessorNotFoundError", error_code |-> "",
     detail |-> payment_mode]

ProcessorNotFoundError(payment_mode) ==
    [type |-> "ProcessorNotFoundError", error_code |-> "PROCESSOR_NOT_FOUND",
     detail |-> payment_mode]

(***************************************************************************)
(* payment_mode.py.                                                        *)
(***************************************************************************)
PaymentModeNames == {"PAYPAL", "GOOGLEPAY", "CREDITCARD"}

Member(name) == [kind |-> "PaymentMode", val |-> name]

PaymentMode == {Member(n) : n \in PaymentModeNames}

\* the characters of the member names
MemberNameChars ==
    [n \in PaymentModeNames |->
        CASE n = "PAYPAL" -> <<"P", "A", "Y", "P", "A", "L">>
          [] n = "GOOGLEPAY" -> <<"G", "O", "O", "G", "L", "E", "P", "A", "Y">>
          [] n = "CREDITCARD" ->
               <<"C", "R", "E", "D", "I", "T", "C", "A", "R", "D">>]

LowerLetters ==
    <<"a", "b", "c", "d", "e", "f", "g", "h", "i", "j", "k", "l", "m",
      "n", "o", "p", "q", "r", "s", "t", "u", "v", "w", "x", "y", "z">>

UpperLetters ==
    <<"A", "B", "C", "D", "E", "F", "G", "H", "I", "J", "K", "L", "M",
      "N", "O", "P", "Q", "R", "S", "T", "U", "V", "W", "X", "Y", "Z">>

LetterIndex(letters, c) ==
    IF \E i \in 1..Len(letters) : letters[i] = c
    THEN CHOOSE i \in 1..Len(letters) : letters[i] = c
    ELSE 0

\* str.upper on one character
UpperChar(c) ==
    IF LetterIndex(LowerLetters, c) = 0 THEN c
    ELSE UpperLetters[LetterIndex(LowerLetters, c)]

\* a conversion that leaves the string as it is
SameSeq(s) == s

\* str.upper
RECURSIVE UpperSeq(_)
UpperSeq(s) ==
    IF s = <<>> THEN <<>> ELSE <<UpperChar(Head(s))>> \o UpperSeq(Tail(s))

\* [mode.name for mode in cls], in definition order
ValidModeNames == <<"PAYPAL", "GOOGLEPAY", "CREDITCARD">>

\* ValueError(f"Invalid payment mode: {mode_str}. Valid modes are: {...}")
FromStringError(mode_str) ==
    [type |-> "ValueError", error_code |-> "", detail |-> "Invalid payment mode",
     mode_str |-> mode_str, valid_modes |-> ValidModeNames]

\* a lookup by name that lets the KeyError of cls[mode_str] out
MemberByNameKeyError(mode_str) ==
    IF \E n \in PaymentModeNames : MemberNameChars[n] = mode_str
    THEN Return(Member(CHOOSE n \in PaymentModeNames : MemberNameChars[n] = mode_str))
    ELSE Raise([type |-> "KeyError", error_code |-> "", detail |-> "",
                mode_str |-> mode_str, valid_modes |-> <<>>])

\* cls[mode_str]: the member of that name, KeyError turned into ValueError
MemberByName(mode_str) ==
    IF \E n \in PaymentModeNames : MemberNameChars[n] = mode_str
    THEN Return(Member(CHOOSE n \in PaymentModeNames : MemberNameChars[n] = mode_str))
    ELSE Raise(FromStringError(mode_str))

\* PaymentMode.from_string; a value without an upper method raises
\* AttributeError
FromString(value) ==
    IF value.kind # "str"
    THEN Raise([type |-> "AttributeError", error_code |-> "", detail |-> "upper"])
    ELSE MemberByName(UpperSeq(value.val))

\* a validity test that also takes the name of a member for the member
IsValidByName(mode) ==
    mode.kind = "PaymentMode" \/ (mode.kind = "str" /\ mode.val \in PaymentModeNames)

\* PaymentMode.is_valid
IsValid(mode) == mode.kind = "PaymentMode"

(***************************************************************************)
(* AmountValidator.validate.                                               *)
(***************************************************************************)
AcceptedTypes == {"int", "bool", "float", "Decimal", "str"}

\* decimal_amount < limit or decimal_amount > limit: an ordering comparison
\* with a NaN operand signals InvalidOperation
DecLess(a, b) ==
    IF a.special = "nan" \/ b.special = "nan" THEN Raise(InvalidOperation)
    ELSE Return(DecCmp(a, b) < 0)

\* a range check that also rejects the limits themselves
RangeCheckExclusive(d) ==
    LET low == DecLess(MIN_PAYMENT_AMOUNT, d)
        high == DecLess(d, MAX_PAYMENT_AMOUNT)
    IN  IF low.tag = "raise" THEN low
        ELSE IF ~low.value THEN Raise(InvalidAmountError(AMOUNT_TOO_LOW_ERROR))
        ELSE IF high.tag = "raise" THEN high
        ELSE IF ~high.value THEN Raise(InvalidAmountError(AMOUNT_TOO_HIGH_ERROR))
        ELSE Return(d)

\* the range validation, on the converted and still unrounded amount
RangeCheck(d) ==
    LET low == DecLess(d, MIN_PAYMENT_AMOUNT)
        high == DecLess(MAX_PAYMENT_AMOUNT, d)
    IN  IF low.tag = "raise" THEN low
        ELSE IF low.value THEN Raise(InvalidAmountError(AMOUNT_TOO_LOW_ERROR))
        ELSE IF high.tag = "raise" THEN high
        ELSE IF high.value THEN Raise(InvalidAmountError(AMOUNT_TOO_HIGH_ERROR))
        ELSE Return(d)

\* a conversion that lets the parser's InvalidOperation escape
ConvertAmountUncaught(amount) == ParseDecimal(PyStr(amount))

\* try: Decimal(str(amount)) except (ValueError, InvalidOperation)
ConvertAmount(amount) ==
    LET parsed == ParseDecimal(PyStr(amount))
    IN  IF parsed.tag = "raise"
        THEN Raise(InvalidAmountError(INVALID_AMOUNT_TYPE_ERROR))
        ELSE parsed

\* a validate that rounds first and checks the range of the rounded amount
ValidateRoundFirst(amount) ==
    IF amount.kind \notin AcceptedTypes
    THEN Raise(InvalidAmountError(INVALID_AMOUNT_TYPE_ERROR))
    ELSE LET converted == ConvertAmount(amount)
             rounded == IF converted.tag = "raise" THEN converted
                        ELSE IF converted.value.special # ""
                        THEN Return(converted.value)
                        ELSE Quantize(converted.value, QUANTIZE_PATTERN.exp)
         IN  IF rounded.tag = "raise" THEN rounded
             ELSE RangeCheck(rounded.value)

Validate(amount) ==
    IF amount.kind \notin AcceptedTypes
    THEN Raise(InvalidAmountError(INVALID_AMOUNT_TYPE_ERROR))
    ELSE LET converted == ConvertAmount(amount)
             checked == IF converted.tag = "raise" THEN converted
                        ELSE RangeCheck(converted.value)
         IN  IF checked.tag = "raise" THEN checked
             ELSE Quantize(checked.value, QUANTIZE_PATTERN.exp)

(***************************************************************************)
(* PaymentResult and the payment processors.  A processor is named by its  *)
(* class; the three stubs are test doubles a caller registers.             *)
(***************************************************************************)
NoneVal == [kind |-> "NoneType", val |-> "None"]

StrVal(chars) == [kind |-> "str", val |-> chars]

IntVal(n) == [kind |-> "int", val |-> n]

BoolVal(b) == [kind |-> "bool", val |-> b]

FloatVal(mills) == [kind |-> "float", val |-> [special |-> "", mills |-> mills]]

FloatSpecialVal(s) == [kind |-> "float", val |-> [special |-> s, mills |-> 0]]

DecimalVal(d) == [kind |-> "Decimal", val |-> d]

PaymentResult(success, message, transaction_id) ==
    [success |-> success, message |-> message, transaction_id |-> transaction_id]

\* PAYMENT_SUCCESS_TEMPLATE.format(payment_type=..., amount=...)
Message(template, payment_type, amount) ==
    [template |-> template, payment_type |-> payment_type, amount |-> amount]

\* format(amount, ".2f") of a finite Decimal
FormatFixed2(d) == DecimalStr(Rescale(d, -2))

\* the characters a validated amount prints with
HashAlphabet == DigitChars \o <<".", "-">>

RECURSIVE CharCode(_, _)
CharCode(c, i) ==
    IF i > Len(HashAlphabet) THEN 0
    ELSE IF HashAlphabet[i] = c THEN i
    ELSE CharCode(c, i + 1)

RECURSIVE HashFold(_, _)
HashFold(h, chars) ==
    IF chars = <<>> THEN h
    ELSE HashFold((h * 31 + CharCode(Head(chars), 1)) % 1048576, Tail(chars))

\* hash(str): a signed value fixed by the string and the seed of the process
StrHash(seed, chars) == HashFold(seed * 7919 + 5381, chars) - 524288

\* a format without the zero padding: "%d"
Pad5Unpadded(n) == NatToDigits(n)

\* "%05d"
Pad5(n) == Zeros(5 - Len(NatToStr(n))) \o NatToDigits(n)

\* f"{prefix}_{hash(str(amount)) % 100000:05d}"
TransactionId(prefix, seed, amount) ==
    StrVal(prefix \o <<"_">>
            \o DigitsToChars(Pad5(StrHash(seed, DecimalStr(amount)) % 100000)))

DefaultProcessorOf(mode) ==
    CASE mode.val = "PAYPAL" -> "PayPalProcessor"
      [] mode.val = "GOOGLEPAY" -> "GooglePayProcessor"
      [] mode.val = "CREDITCARD" -> "CreditCardProcessor"

DefaultProcessors == {DefaultProcessorOf(m) : m \in PaymentMode}

StubProcessors == {"ApprovingStub", "DecliningStub", "RaisingStub"}

\* processor.process_payment(amount) in a process whose hash seed is seed
ProcessPayment(proc, seed, amount) ==
    CASE proc = "PayPalProcessor" ->
           Return(PaymentResult(TRUE,
               Message(PAYMENT_SUCCESS_TEMPLATE, "PayPal", FormatFixed2(amount)),
               TransactionId(<<"P", "P">>, seed, amount)))
      [] proc = "GooglePayProcessor" ->
           Return(PaymentResult(TRUE,
               Message(PAYMENT_SUCCESS_TEMPLATE, "GooglePay", FormatFixed2(amount)),
               TransactionId(<<"G", "P">>, seed, amount)))
      [] proc = "CreditCardProcessor" ->
           Return(PaymentResult(TRUE,
               Message(PAYMENT_SUCCESS_TEMPLATE, "Credit Card", FormatFixed2(amount)),
               TransactionId(<<"C", "C">>, seed, amount)))
      [] proc = "ApprovingStub" ->
           Return(PaymentResult(TRUE, Message("approved by stub", "", <<>>),
                                StrVal(<<"S", "T", "U", "B">>)))
      [] proc = "DecliningStub" ->
           Return(PaymentResult(FALSE, Message("declined by stub", "", <<>>),
                                NoneVal))
      [] proc = "RaisingStub" ->
           Raise([type |-> "RuntimeError", error_code |-> "",
                  detail |-> "raised by stub"])

\* PaymentProcessor.processor_name
ProcessorName(proc) ==
    CASE proc = "PayPalProcessor" -> "PayPal"
      [] proc = "GooglePayProcessor" -> "GooglePay"
      [] proc = "CreditCardProcessor" -> "Credit Card"
      [] OTHER -> proc

\* the types format(amount, ".2f") accepts; for any other type the format
\* raises inside the try block of process_payment
FixedFormatTypes == {"int", "bool", "float", "Decimal"}

\* a process_payment whose except branch returns a failed result
ProcessPaymentFailedResult(proc, seed, value) ==
    IF proc \in DefaultProcessors /\ value.kind \notin FixedFormatTypes
    THEN Return(PaymentResult(FALSE, Message("payment failed", ProcessorName(proc), <<>>),
                              NoneVal))
    ELSE ProcessPayment(proc, seed, value.val)

\* processor.process_payment(value) called with a value of any type: an
\* exception inside the try block becomes PaymentProcessingError
ProcessPaymentCall(proc, seed, value) ==
    IF proc \in DefaultProcessors /\ value.kind \notin FixedFormatTypes
    THEN Raise(PaymentProcessingError(ProcessorName(proc)))
    ELSE ProcessPayment(proc, seed, value.val)

\* a record handed to the module's logger
LogRecord(level, event, subject) ==
    [level |-> level, event |-> event, subject |-> subject]

\* what process_payment logs: logger.info once the amount is formatted,
\* logger.error in the except branch
ProcessorLog(proc, value) ==
    IF proc \notin DefaultProcessors THEN <<>>
    ELSE IF value.kind \in FixedFormatTypes
    THEN <<LogRecord("info", "Processing payment of", ProcessorName(proc))>>
    ELSE <<LogRecord("error", "payment failed", ProcessorName(proc))>>

(***************************************************************************)
(* CheckoutService.  _processors is a dict: a sequence of entries in        *)
(* insertion order with unique keys.                                       *)
(***************************************************************************)
Entry(key, proc) == [key |-> key, proc |-> proc]

Keys(procs) == {procs[i].key : i \in 1..Len(procs)}

Lookup(procs, key) == procs[CHOOSE i \in 1..Len(procs) : procs[i].key = key].proc

\* dict.setdefault: an existing entry is kept
DictSetDefault(procs, key, proc) ==
    IF key \in Keys(procs) THEN procs ELSE Append(procs, Entry(key, proc))

\* a registry kept at its size: a new key takes the place of the last entry
DictSetReplacingLast(procs, key, proc) ==
    IF key \in Keys(procs)
    THEN [i \in 1..Len(procs) |->
             IF procs[i].key = key THEN Entry(key, proc) ELSE procs[i]]
    ELSE IF procs = <<>> THEN <<Entry(key, proc)>>
    ELSE [procs EXCEPT ![Len(procs)] = Entry(key, proc)]

\* self._processors[key] = proc
DictSet(procs, key, proc) ==
    IF key \in Keys(procs)
    THEN [i \in 1..Len(procs) |->
             IF procs[i].key = key THEN Entry(key, proc) ELSE procs[i]]
    ELSE Append(procs, Entry(key, proc))

\* a registry whose GOOGLEPAY and CREDITCARD processors are exchanged
InitialProcessorsSwapped ==
    <<Entry(Member("PAYPAL"), "PayPalProcessor"),
      Entry(Member("GOOGLEPAY"), "CreditCardProcessor"),
      Entry(Member("CREDITCARD"), "GooglePayProcessor")>>

\* CheckoutService.__init__
InitialProcessors ==
    <<Entry(Member("PAYPAL"), "PayPalProcessor"),
      Entry(Member("GOOGLEPAY"), "GooglePayProcessor"),
      Entry(Member("CREDITCARD"), "CreditCardProcessor")>>

\* a lookup that falls back to the processor class of the mode
GetProcessorOrDefault(procs, mode) ==
    IF mode \notin Keys(procs) THEN Return(DefaultProcessorOf(mode))
    ELSE Return(Lookup(procs, mode))

\* CheckoutService._get_processor
GetProcessor(procs, mode) ==
    IF mode \notin Keys(procs) THEN Raise(ProcessorNotFoundError(mode.val))
    ELSE Return(Lookup(procs, mode))

\* a lookup that takes the entry out of the dict: self._processors.pop(mode)
RegistryAfterPop(procs, mode) ==
    SelectSeq(procs, LAMBDA e : e.key # mode)

\* the dict after _get_processor: `in` and the subscript only read it
RegistryAfterLookup(procs, mode) == procs

\* a dispatch that calls the processor again when it raised
DispatchRetrying(proc, seed, amount) ==
    [outcome |-> ProcessPayment(proc, seed, amount),
     calls |-> IF ProcessPayment(proc, seed, amount).tag = "raise"
               THEN <<[proc |-> proc, amount |-> amount],
                      [proc |-> proc, amount |-> amount]>>
               ELSE <<[proc |-> proc, amount |-> amount]>>]

\* a dispatch that turns a processor's exception into a failed result
DispatchSwallowing(proc, seed, amount) ==
    LET ret == ProcessPayment(proc, seed, amount)
    IN  [outcome |->
             IF ret.tag = "raise"
             THEN Return(PaymentResult(FALSE,
                      Message("An unexpected error occurred", "", <<>>), NoneVal))
             ELSE ret,
         calls |-> <<[proc |-> proc, amount |-> amount]>>]

\* return processor.process_payment(validated_amount)
Dispatch(proc, seed, amount) ==
    [outcome |-> ProcessPayment(proc, seed, amount),
     calls |-> <<[proc |-> proc, amount |-> amount]>>]

\* CheckoutService.checkout: the outcome of the call and the processor
\* invocations it makes (processor and amount passed)
CheckoutRun(procs, seed, mode, amount) ==
    IF ~IsValid(mode)
    THEN [outcome |-> Raise(InvalidPaymentModeError(mode.val)), calls |-> <<>>]
    ELSE LET validated == Validate(amount)
             found == GetProcessor(procs, mode)
         IN  IF validated.tag = "raise"
             THEN [outcome |-> validated, calls |-> <<>>]
             ELSE IF found.tag = "raise"
             THEN [outcome |-> found, calls |-> <<>>]
             ELSE Dispatch(found.value, seed, validated.value)

\* what CheckoutService.checkout logs once mode and amount are valid
DispatchLog(found, mode, amount) ==
    IF found.tag = "raise" THEN <<>>
    ELSE <<LogRecord("info", "Processing payment", mode.val)>>
             \o ProcessorLog(found.value, DecimalVal(amount))

\* the records CheckoutService.checkout and the processor hand to the
\* logger; validated is what validate gives for the amount of the call
CheckoutLog(procs, mode, validated) ==
    IF ~IsValid(mode)
    THEN <<LogRecord("warning", "Invalid payment mode attempted", "")>>
    ELSE IF validated.tag = "raise" THEN <<>>
    ELSE DispatchLog(GetProcessor(procs, mode), mode, validated.value)

\* what add_processor logs: the line is reached and formatted for a member
AddProcessorLog(mode, proc) ==
    IF mode.kind = "PaymentMode"
    THEN <<LogRecord("info", "Added processor for", mode.val)>>
    ELSE <<>>

\* the dict after CheckoutService.checkout: the only step that touches it is
\* _get_processor, reached when the mode and the amount are valid; validated
\* is what validate gives for the amount of the call
CheckoutRegistry(procs, mode, validated) ==
    IF ~IsValid(mode) THEN procs
    ELSE IF validated.tag = "raise" THEN procs
    ELSE RegistryAfterLookup(procs, mode)

\* CheckoutService.add_processor: the dict after the call and its outcome.
\* The entry is stored before the log line reads mode.name; a list is
\* unhashable and cannot be a key.
AddProcessorRun(procs, mode, proc) ==
    IF mode.kind = "list"
    THEN [processors |-> procs,
          outcome |-> Raise([type |-> "TypeError", error_code |-> "",
                             detail |-> "unhashable type"])]
    ELSE [processors |-> DictSet(procs, mode, proc),
          outcome |->
              IF mode.kind = "PaymentMode" THEN Return(NoneVal)
              ELSE Raise([type |-> "AttributeError", error_code |-> "",
                          detail |-> "name"])]

\* the subclasses of PaymentError
PaymentErrorTypes ==
    {"InvalidPaymentModeError", "InvalidAmountError", "PaymentProcessingError",
     "ProcessorNotFoundError"}

\* a legacy checkout that catches PaymentError alone
LegacyCatchingPaymentError(outcome) ==
    IF outcome.tag = "return" THEN Return(BoolVal(outcome.value.success))
    ELSE IF outcome.value.type \in PaymentErrorTypes THEN Return(BoolVal(FALSE))
    ELSE outcome

\* Checkout.checkout, given the outcome of self._service.checkout(mode, amount):
\* result.success, or False from either except branch
LegacyCheckoutRun(outcome) ==
    IF outcome.tag = "return" THEN Return(BoolVal(outcome.value.success))
    ELSE IF outcome.value.type \in PaymentErrorTypes THEN Return(BoolVal(FALSE))
    ELSE Return(BoolVal(FALSE))

\* what Checkout.checkout itself logs: the except Exception branch
LegacyCheckoutLog(outcome) ==
    IF outcome.tag = "raise" /\ outcome.value.type \notin PaymentErrorTypes
    THEN <<LogRecord("error", "Unexpected error in legacy checkout", "")>>
    ELSE <<>>

\* one dict shared by all instances, as a class attribute would be
InstanceRegistryShared(own, first) == first

\* self._processors of an instance: the dict its own __init__ built, whatever
\* the dict of the service created first holds
InstanceRegistry(own, first) == own

\* a list of the members of the enum, whatever the registry holds
SupportedModesOfEnum(procs) ==
    [kind |-> "list",
     val |-> <<Member("PAYPAL"), Member("GOOGLEPAY"), Member("CREDITCARD")>>]

\* CheckoutService.get_supported_payment_modes
SupportedModes(procs) ==
    [kind |-> "list", val |-> [i \in 1..Len(procs) |-> procs[i].key]]

(***************************************************************************)
(* Inputs.                                                                 *)
(***************************************************************************)
\* amounts in thousandths: a window around each limit and the tests' values
LowMills == (10 - Window)..(10 + Window)

HighMills == (999999990 - Window)..(999999990 + Window)

TestMills ==
    {100123, 99999, 150555, 150545, 125, 135, 100500, 75250, 150000, 150750,
     1000, 99990, -5000, -10000, 100000}

Mills == LowMills \cup HighMills \cup TestMills

IntInputs ==
    {IntVal(m \div 1000) : m \in {x \in Mills : x % 1000 = 0}}
        \cup {IntVal(2), IntVal(999999)}

FloatInputs == {FloatVal(m) : m \in Mills}

DecimalInputs ==
    {DecimalVal(MkDec(m, -3)) : m \in Mills}
        \cup {DecimalVal(MkDec(m \div 10, -2)) : m \in {x \in Mills : x % 10 = 0}}
        \cup {DecimalVal(MkDec(m \div 1000, 0)) : m \in {x \in Mills : x % 1000 = 0}}
        \cup {DecimalVal(MkDec(1, 2)), DecimalVal(MkDec(1, 6)), DecimalVal(MkDec(15, -1))}

NumberInputs == IntInputs \cup FloatInputs \cup DecimalInputs

RECURSIVE Pow10(_)
Pow10(n) == IF n <= 0 THEN 1 ELSE 10 * Pow10(n - 1)

\* the exact value, in thousandths, of a finite number of NumberInputs
ValueMills(a) ==
    CASE a.kind = "int" -> a.val * 1000
      [] a.kind = "float" -> a.val.mills
      [] a.kind = "Decimal" ->
           SignFactor(a.val) * DigitsToNat(a.val.digits) * Pow10(a.val.exp + 3)

\* numeric strings with their values in thousandths: the printed forms of
\* the numbers above and some other spellings
NumericStrings ==
    {<<PyStr(a), ValueMills(a)>> : a \in NumberInputs}
        \cup {<<<<"1", ".">>, 1000>>, <<<<".", "5">>, 500>>,
              <<<<"+", "1">>, 1000>>, <<<<"1", "e", "2">>, 100000>>,
              <<<<"1", "E", "-", "2">>, 10>>, <<<<"1", "e", "-", "3">>, 1>>,
              <<<<"0", "0", ".", "0", "1", "0">>, 10>>,
              <<<<"-", ".", "0", "1">>, -10>>,
              <<<<"1", "e", "6">>, 1000000000>>}

\* strings that Decimal() does not parse
InvalidStrings ==
    {<<>>, <<"i", "n", "v", "a", "l", "i", "d">>, <<".">>, <<"-">>,
     <<"1", ".", "2", ".", "3">>, <<"1", "e">>, <<"1", "2", "a">>,
     <<"$", "5">>, <<"-", "-", "1">>, <<"e", "5">>, <<"1", "e", ".", "5">>}

\* strings that parse as NaN or an infinity
SpecialStrings ==
    {<<"n", "a", "n">>, <<"N", "a", "N">>, <<"i", "n", "f">>,
     <<"-", "I", "n", "f", "i", "n", "i", "t", "y">>}

StrInputs ==
    {StrVal(p[1]) : p \in NumericStrings}
        \cup {StrVal(s) : s \in InvalidStrings \cup SpecialStrings}

SpecialNumberInputs ==
    {FloatSpecialVal("nan"), FloatSpecialVal("inf"), FloatSpecialVal("-inf"),
     DecimalVal(DecNaN(0)), DecimalVal(DecInf(0)), DecimalVal(DecInf(1))}

\* values of the types validate does not accept
OtherTypeInputs ==
    {NoneVal, [kind |-> "list", val |-> "[]"], [kind |-> "dict", val |-> "{}"]}

AmountInputs ==
    NumberInputs \cup SpecialNumberInputs \cup StrInputs
        \cup {BoolVal(TRUE), BoolVal(FALSE)} \cup OtherTypeInputs

\* values that are no PaymentMode member
NonMembers ==
    {[kind |-> "str", val |-> "BITCOIN"], [kind |-> "str", val |-> "PAYPAL"],
     [kind |-> "int", val |-> "1"], [kind |-> "list", val |-> "[]"], NoneVal}

ModeInputs == PaymentMode \cup NonMembers

\* the calls made against a service whose registry changes: a few modes and
\* amounts of every kind of outcome
CheckoutModes ==
    PaymentMode
        \cup {[kind |-> "str", val |-> "BITCOIN"],
              [kind |-> "str", val |-> "PAYPAL"], NoneVal}

CheckoutAmounts ==
    {IntVal(1), FloatVal(125), StrVal(<<"1", "5", "0", ".", "7", "5">>),
     DecimalVal(MAX_PAYMENT_AMOUNT), IntVal(0), FloatVal(9), IntVal(1000000),
     StrVal(<<"i", "n", "v", "a", "l", "i", "d">>), NoneVal,
     FloatSpecialVal("nan")}

\* the modes and processors add_processor is called with
AddModes ==
    {Member("PAYPAL"), [kind |-> "str", val |-> "BITCOIN"],
     [kind |-> "list", val |-> "[]"]}

AddProcessors == StubProcessors

\* the strings from_string is called with: every upper/lower-case spelling of
\* a member name, strings that spell no member, and None
AsciiLower(c) ==
    IF LetterIndex(UpperLetters, c) = 0 THEN c
    ELSE LowerLetters[LetterIndex(UpperLetters, c)]

RECURSIVE CaseVariants(_)
CaseVariants(cs) ==
    IF cs = <<>> THEN {<<>>}
    ELSE {<<c>> \o rest : c \in {Head(cs), AsciiLower(Head(cs))},
                          rest \in CaseVariants(Tail(cs))}

MemberSpellings == UNION {CaseVariants(MemberNameChars[n]) : n \in PaymentModeNames}

NonMemberStrings ==
    {<<>>, <<"B", "I", "T", "C", "O", "I", "N">>, <<"C", "A", "S", "H">>,
     <<"I", "N", "V", "A", "L", "I", "D">>, <<"P", "A", "Y", "P", "A">>,
     <<"p", "a", "y", "p", "a", "l", "l">>, <<" ", "p", "a", "y", "p", "a", "l">>,
     <<"p", "a", "y", " ", "p", "a", "l">>,
     <<"C", "r", "e", "d", "i", "t", " ", "C", "a", "r", "d">>,
     <<"g", "o", "o", "g", "l", "e", "_", "p", "a", "y">>, <<"1">>}

FromStringInputs ==
    {StrVal(cs) : cs \in MemberSpellings \cup NonMemberStrings} \cup {NoneVal}

\* the values process_payment is called with directly: Decimals, quantized
\* or not, and values of types the amount format rejects
DirectAmounts ==
    {DecimalVal(MkDec(10050, -2)), DecimalVal(MkDec(5, 0)), DecimalVal(MkDec(1, -2)),
     DecimalVal(MkDec(1234567, -3)), NoneVal, StrVal(<<"a", "b", "c">>),
     [kind |-> "list", val |-> "[]"]}

\* the calls of concurrent checkouts and the registries they run against:
\* the default one, and one emptied and refilled without GOOGLEPAY
ConcurrentCalls ==
    {[mode |-> Member("PAYPAL"), amount |-> IntVal(1)],
     [mode |-> Member("CREDITCARD"), amount |-> FloatVal(125)],
     [mode |-> Member("GOOGLEPAY"), amount |-> IntVal(1)],
     [mode |-> Member("PAYPAL"), amount |-> IntVal(0)],
     [mode |-> [kind |-> "str", val |-> "BITCOIN"], amount |-> IntVal(1)]}

StableRegistries ==
    {InitialProcessors,
     <<Entry(Member("PAYPAL"), "PayPalProcessor"),
       Entry(Member("CREDITCARD"), "DecliningStub")>>}

\* amounts in several representations, some normalizing to the same value
RepeatAmounts ==
    {IntVal(100), FloatVal(100000), StrVal(<<"1", "0", "0", ".", "0", "0">>),
     DecimalVal(MkDec(100, 0)), FloatVal(100004), FloatVal(125), FloatVal(115),
     IntVal(1)}

\* the add_processor calls made while checkouts run
ConcurrentAdds ==
    {[mode |-> Member("PAYPAL"), proc |-> "ApprovingStub"],
     [mode |-> Member("PAYPAL"), proc |-> "RaisingStub"],
     [mode |-> Member("GOOGLEPAY"), proc |-> "DecliningStub"]}

\* the calls made on the second service and on the legacy Checkout
InstanceCalls ==
    {[mode |-> m, amount |-> a] :
        m \in {Member("PAYPAL"), Member("GOOGLEPAY"),
               [kind |-> "str", val |-> "BITCOIN"]},
        a \in {IntVal(1), FloatVal(125), IntVal(0)}}

\* the values that can be keys of the dict
HashableModes == {m \in ModeInputs : m.kind # "list"}

(***************************************************************************)
(* State.                                                                  *)
(***************************************************************************)
VARIABLES
    processors,     \* CheckoutService._processors
    hashSeed,       \* the string-hash seed of the process
    lastAdded,      \* history: per key, the processor add_processor stored last
    last,           \* the last call: operation, arguments and outcome
    invocations,    \* the process_payment calls made by the last call
    log,            \* the records logged since the last call began
    threads,        \* the checkout calls running concurrently, one per thread
    earlier,        \* history: a checkout made before, kept for comparison
    other,          \* _processors of a second service, or of a legacy Checkout
    pending         \* the call about to be made, when it is fixed beforehand

vars ==
    <<processors, hashSeed, lastAdded, last, invocations, log, threads, earlier,
      other, pending>>

Call(op, mode, amount, proc, outcome) ==
    [op |-> op, mode |-> mode, amount |-> amount, proc |-> proc,
     outcome |-> outcome]

NoCall == Call("none", NoneVal, NoneVal, "", Return(NoneVal))

NothingAdded == [m \in HashableModes |-> ""]

\* a process that has just created its CheckoutService
Fresh ==
    /\ processors = InitialProcessors
    /\ hashSeed \in 0..MaxSeed
    /\ lastAdded = NothingAdded
    /\ last = NoCall
    /\ invocations = <<>>
    /\ log = <<LogRecord("info", "CheckoutService initialized with processors", "")>>
    /\ threads = <<>>
    /\ earlier = NoCall
    /\ other = InitialProcessors

Init == Fresh /\ pending = NoCall

(***************************************************************************)
(* Operations of CheckoutService and of the legacy Checkout wrapped around *)
(* it.                                                                     *)
(***************************************************************************)
DoCheckout(mode, amount) ==
    \E run \in {CheckoutRun(processors, hashSeed, mode, amount)},
       validated \in {Validate(amount)} :
        /\ last' = Call("checkout", mode, amount, "", run.outcome)
        /\ invocations' = run.calls
        /\ processors' = CheckoutRegistry(processors, mode, validated)
        /\ log' = CheckoutLog(processors, mode, validated)
        /\ UNCHANGED <<hashSeed, lastAdded, threads, other>>

Checkout ==
    /\ pending = NoCall
    /\ \E mode \in CheckoutModes, amount \in CheckoutAmounts :
           DoCheckout(mode, amount)
    /\ UNCHANGED <<pending, earlier>>

\* Checkout.checkout on the legacy object whose _service this is
LegacyCheckout ==
    /\ pending = NoCall
    /\ \E mode \in CheckoutModes, amount \in CheckoutAmounts :
           \E run \in {CheckoutRun(processors, hashSeed, mode, amount)},
              validated \in {Validate(amount)} :
               /\ last' = Call("legacy_checkout", mode, amount, "",
                               LegacyCheckoutRun(run.outcome))
               /\ invocations' = run.calls
               /\ processors' = CheckoutRegistry(processors, mode, validated)
               /\ log' = CheckoutLog(processors, mode, validated)
                             \o LegacyCheckoutLog(run.outcome)
    /\ UNCHANGED <<hashSeed, lastAdded, threads, earlier, other, pending>>

AddProcessor ==
    /\ pending = NoCall
    /\ \E mode \in AddModes, proc \in AddProcessors :
           \E run \in {AddProcessorRun(processors, mode, proc)} :
               /\ processors' = run.processors
               /\ lastAdded' = IF mode \in HashableModes
                               THEN [lastAdded EXCEPT ![mode] = proc]
                               ELSE lastAdded
               /\ last' = Call("add_processor", mode, NoneVal, proc, run.outcome)
               /\ log' = AddProcessorLog(mode, proc)
    /\ invocations' = <<>>
    /\ UNCHANGED <<hashSeed, threads, earlier, other, pending>>

GetSupportedPaymentModes ==
    /\ pending = NoCall
    /\ last' = Call("get_supported_payment_modes", NoneVal, NoneVal, "",
                    Return(SupportedModes(processors)))
    /\ invocations' = <<>>
    /\ log' = <<>>
    /\ UNCHANGED <<processors, hashSeed, lastAdded, threads,
                 earlier, other, pending>>

\* process_payment called on a processor itself, as the processor tests do
ProcessPaymentDirect ==
    /\ pending = NoCall
    /\ \E proc \in DefaultProcessors, value \in DirectAmounts :
           /\ last' = Call("process_payment", NoneVal, value, proc,
                           ProcessPaymentCall(proc, hashSeed, value))
           /\ log' = ProcessorLog(proc, value)
    /\ invocations' = <<>>
    /\ UNCHANGED <<processors, hashSeed, lastAdded, threads,
                 earlier, other, pending>>

\* service._processors.clear(), as the tests empty the registry
ClearProcessors ==
    /\ pending = NoCall
    /\ processors' = <<>>
    /\ lastAdded' = NothingAdded
    /\ last' = Call("clear", NoneVal, NoneVal, "", Return(NoneVal))
    /\ invocations' = <<>>
    /\ log' = <<>>
    /\ UNCHANGED <<hashSeed, threads, earlier, other, pending>>

Next ==
    \/ Checkout
    \/ LegacyCheckout
    \/ AddProcessor
    \/ GetSupportedPaymentModes
    \/ ProcessPaymentDirect
    \/ ClearProcessors

Spec == Init /\ [][Next]_vars

\* the calls of the public interface only: the registry is never emptied
NextPublic == Checkout \/ AddProcessor \/ GetSupportedPaymentModes

SpecPublic == Init /\ [][NextPublic]_vars

(***************************************************************************)
(* Single calls on a fresh service, the arguments drawn from the wide      *)
(* input sets: AmountValidator.validate(a), validate applied again to the  *)
(* amount it returned, checkout(m, a) on the default registry,             *)
(* PaymentMode.from_string(s), and process_payment(v) called directly on a *)
(* processor.  The argument of from_string and of process_payment is kept  *)
(* in the amount field of the call.                                        *)
(***************************************************************************)
InitCalls ==
    /\ Fresh
    /\ pending \in
           {Call("validate", NoneVal, a, "", Return(NoneVal)) : a \in AmountInputs}
               \cup {Call("checkout", m, a, "", Return(NoneVal)) :
                         m \in ModeInputs, a \in AmountInputs}
               \cup {Call("from_string", NoneVal, s, "", Return(NoneVal)) :
                         s \in FromStringInputs}
               \cup {Call("is_valid", m, NoneVal, "", Return(NoneVal)) :
                         m \in ModeInputs}
               \cup {Call("process_payment", NoneVal, v, p, Return(NoneVal)) :
                         v \in DirectAmounts,
                         p \in DefaultProcessors \cup StubProcessors}

CallValidate ==
    /\ pending.op = "validate"
    /\ last' = Call("validate", NoneVal, pending.amount, "",
                    Validate(pending.amount))
    /\ pending' = NoCall
    /\ log' = <<>>
    /\ UNCHANGED <<processors, hashSeed, lastAdded, invocations, threads,
                 earlier, other>>

Revalidate ==
    /\ pending = NoCall
    /\ last.op = "validate"
    /\ last.outcome.tag = "return"
    /\ last' = Call("revalidate", NoneVal, DecimalVal(last.outcome.value), "",
                    Validate(DecimalVal(last.outcome.value)))
    /\ log' = <<>>
    /\ UNCHANGED <<processors, hashSeed, lastAdded, invocations, threads,
                 earlier, other, pending>>

CallCheckout ==
    /\ pending.op = "checkout"
    /\ DoCheckout(pending.mode, pending.amount)
    /\ pending' = NoCall
    /\ UNCHANGED earlier

CallFromString ==
    /\ pending.op = "from_string"
    /\ last' = Call("from_string", NoneVal, pending.amount, "",
                    FromString(pending.amount))
    /\ pending' = NoCall
    /\ log' = <<>>
    /\ UNCHANGED <<processors, hashSeed, lastAdded, invocations, threads,
                 earlier, other>>

CallIsValid ==
    /\ pending.op = "is_valid"
    /\ last' = Call("is_valid", pending.mode, NoneVal, "",
                    Return(BoolVal(IsValid(pending.mode))))
    /\ pending' = NoCall
    /\ log' = <<>>
    /\ UNCHANGED <<processors, hashSeed, lastAdded, invocations, threads,
                 earlier, other>>

CallProcessPayment ==
    /\ pending.op = "process_payment"
    /\ last' = Call("process_payment", NoneVal, pending.amount, pending.proc,
                    ProcessPaymentCall(pending.proc, hashSeed, pending.amount))
    /\ invocations' = <<>>
    /\ log' = ProcessorLog(pending.proc, pending.amount)
    /\ pending' = NoCall
    /\ UNCHANGED <<processors, hashSeed, lastAdded, threads, earlier, other>>

NextCalls ==
    \/ CallValidate
    \/ Revalidate
    \/ CallCheckout
    \/ CallFromString
    \/ CallIsValid
    \/ CallProcessPayment

SpecCalls == InitCalls /\ [][NextCalls]_vars

(***************************************************************************)
(* Concurrent checkout calls on one CheckoutService whose registry no      *)
(* add_processor call changes meanwhile.  Each thread runs the statements  *)
(* of CheckoutService.checkout in order; threads interleave between them.  *)
(***************************************************************************)
Threads == 1..NumThreads

ThreadState(pc, mode, amount, validated, processor, outcome) ==
    [pc |-> pc, mode |-> mode, amount |-> amount, validated |-> validated,
     processor |-> processor, outcome |-> outcome]

StartThread(call) ==
    ThreadState("mode", call.mode, call.amount, Return(NoneVal), "",
                Return(NoneVal))

\* the thread has left checkout with this outcome
Finish(t, outcome) ==
    threads' = [threads EXCEPT ![t].pc = "done", ![t].outcome = outcome]

InitConcurrent ==
    /\ processors \in StableRegistries
    /\ hashSeed \in 0..MaxSeed
    /\ lastAdded = [m \in HashableModes |->
                       IF processors # InitialProcessors /\ m \in Keys(processors)
                       THEN Lookup(processors, m) ELSE ""]
    /\ last = NoCall
    /\ invocations = <<>>
    /\ log = <<>>
    /\ threads \in [Threads -> {StartThread(c) : c \in ConcurrentCalls}]
    /\ earlier = NoCall
    /\ other = InitialProcessors
    /\ pending = NoCall

\* if not PaymentMode.is_valid(mode): warn and raise
CheckMode(t) ==
    /\ threads[t].pc = "mode"
    /\ IF IsValid(threads[t].mode)
       THEN /\ threads' = [threads EXCEPT ![t].pc = "amount"]
            /\ UNCHANGED log
       ELSE /\ Finish(t, Raise(InvalidPaymentModeError(threads[t].mode.val)))
            /\ log' = log \o CheckoutLog(processors, threads[t].mode,
                                         Return(NoneVal))
    /\ UNCHANGED <<processors, hashSeed, lastAdded, last, invocations, pending,
                 earlier, other>>

\* validated_amount = self._amount_validator.validate(amount)
ValidateAmount(t) ==
    /\ threads[t].pc = "amount"
    /\ \E validated \in {Validate(threads[t].amount)} :
           IF validated.tag = "raise"
           THEN Finish(t, validated)
           ELSE threads' = [threads EXCEPT ![t].pc = "contains",
                                           ![t].validated = validated]
    /\ UNCHANGED <<processors, hashSeed, lastAdded, last, invocations, log, pending,
                 earlier, other>>

\* _get_processor: if mode not in self._processors: raise
Contains(t) ==
    /\ threads[t].pc = "contains"
    /\ IF threads[t].mode \in Keys(processors)
       THEN threads' = [threads EXCEPT ![t].pc = "fetch"]
       ELSE Finish(t, Raise(ProcessorNotFoundError(threads[t].mode.val)))
    /\ UNCHANGED <<processors, hashSeed, lastAdded, last, invocations, log, pending,
                 earlier, other>>

\* _get_processor: return self._processors[mode]; KeyError if the key is gone
Fetch(t) ==
    /\ threads[t].pc = "fetch"
    /\ IF threads[t].mode \in Keys(processors)
       THEN threads' = [threads EXCEPT ![t].pc = "process",
                           ![t].processor = Lookup(processors, threads[t].mode)]
       ELSE Finish(t, Raise([type |-> "KeyError", error_code |-> "",
                             detail |-> threads[t].mode.val]))
    /\ processors' = RegistryAfterLookup(processors, threads[t].mode)
    /\ UNCHANGED <<hashSeed, lastAdded, last, invocations, log, pending,
                 earlier, other>>

\* logger.info(...); return processor.process_payment(validated_amount)
Process(t) ==
    /\ threads[t].pc = "process"
    /\ \E run \in {Dispatch(threads[t].processor, hashSeed,
                              threads[t].validated.value)} :
           /\ Finish(t, run.outcome)
           /\ invocations' = invocations \o run.calls
    /\ log' = log \o DispatchLog(Return(threads[t].processor), threads[t].mode,
                                 threads[t].validated.value)
    /\ UNCHANGED <<processors, hashSeed, lastAdded, last, pending,
                 earlier, other>>

NextConcurrent ==
    \E t \in Threads :
        \/ CheckMode(t)
        \/ ValidateAmount(t)
        \/ Contains(t)
        \/ Fetch(t)
        \/ Process(t)

SpecConcurrent == InitConcurrent /\ [][NextConcurrent]_vars

(***************************************************************************)
(* Checkouts repeated in one process on the default registry, other calls  *)
(* between them; one of the checkouts made is kept in `earlier`.           *)
(***************************************************************************)
RepeatCheckout ==
    /\ pending = NoCall
    /\ \E mode \in PaymentMode, amount \in RepeatAmounts :
           DoCheckout(mode, amount)
    /\ earlier' \in {earlier, last}
    /\ UNCHANGED pending

NextRepeat == RepeatCheckout \/ GetSupportedPaymentModes

SpecRepeat == Init /\ [][NextRepeat]_vars

(***************************************************************************)
(* add_processor running while checkouts run on the default registry: the  *)
(* item assignment of add_processor is one step between the statements of  *)
(* the checkout threads.                                                   *)
(***************************************************************************)
InitConcurrentAdd ==
    /\ processors = InitialProcessors
    /\ hashSeed \in 0..MaxSeed
    /\ lastAdded = NothingAdded
    /\ last = NoCall
    /\ invocations = <<>>
    /\ log = <<>>
    /\ threads \in [Threads -> {StartThread(c) : c \in ConcurrentCalls}]
    /\ earlier = NoCall
    /\ other = InitialProcessors
    /\ pending \in {Call("add_processor", c.mode, NoneVal, c.proc, Return(NoneVal)) :
                        c \in ConcurrentAdds}

ConcurrentAdd ==
    /\ pending.op = "add_processor"
    /\ \E run \in {AddProcessorRun(processors, pending.mode, pending.proc)} :
           /\ processors' = run.processors
           /\ last' = Call("add_processor", pending.mode, NoneVal, pending.proc,
                           run.outcome)
    /\ lastAdded' = [lastAdded EXCEPT ![pending.mode] = pending.proc]
    /\ log' = log \o AddProcessorLog(pending.mode, pending.proc)
    /\ pending' = NoCall
    /\ UNCHANGED <<hashSeed, invocations, threads, earlier, other>>

NextConcurrentAdd == ConcurrentAdd \/ NextConcurrent

SpecConcurrentAdd == InitConcurrentAdd /\ [][NextConcurrentAdd]_vars

(***************************************************************************)
(* Two services and a legacy Checkout in one process: add_processor is     *)
(* called on the first service, checkouts are made on the second service   *)
(* and on the legacy object, whose registry is `other`.                    *)
(***************************************************************************)
OtherCheckout ==
    /\ pending = NoCall
    /\ \E call \in InstanceCalls :
           \E procs \in {InstanceRegistry(other, processors)},
              validated \in {Validate(call.amount)} :
               \E run \in {CheckoutRun(procs, hashSeed, call.mode, call.amount)} :
                   /\ last' = Call("other_checkout", call.mode, call.amount, "",
                                   run.outcome)
                   /\ invocations' = run.calls
                   /\ other' = CheckoutRegistry(other, call.mode, validated)
                   /\ log' = CheckoutLog(procs, call.mode, validated)
    /\ UNCHANGED <<processors, hashSeed, lastAdded, threads, earlier, pending>>

OtherLegacyCheckout ==
    /\ pending = NoCall
    /\ \E call \in InstanceCalls :
           \E procs \in {InstanceRegistry(other, processors)},
              validated \in {Validate(call.amount)} :
               \E run \in {CheckoutRun(procs, hashSeed, call.mode, call.amount)} :
                   /\ last' = Call("other_legacy_checkout", call.mode,
                                   call.amount, "", LegacyCheckoutRun(run.outcome))
                   /\ invocations' = run.calls
                   /\ other' = CheckoutRegistry(other, call.mode, validated)
                   /\ log' = CheckoutLog(procs, call.mode, validated)
                                 \o LegacyCheckoutLog(run.outcome)
    /\ UNCHANGED <<processors, hashSeed, lastAdded, threads, earlier, pending>>

OtherSupportedModes ==
    /\ pending = NoCall
    /\ last' = Call("other_get_supported_payment_modes", NoneVal, NoneVal, "",
                    Return(SupportedModes(InstanceRegistry(other, processors))))
    /\ invocations' = <<>>
    /\ log' = <<>>
    /\ UNCHANGED <<processors, hashSeed, lastAdded, threads,
                 earlier, other, pending>>

NextInstances ==
    \/ AddProcessor
    \/ OtherCheckout
    \/ OtherLegacyCheckout
    \/ OtherSupportedModes

SpecInstances == Init /\ [][NextInstances]_vars

(***************************************************************************)
(* Properties.                                                             *)
(***************************************************************************)
\* a finite number, or a string that spells one
IsNumeric(a) ==
    \/ a.kind = "int"
    \/ a.kind \in {"float", "Decimal"} /\ a.val.special = ""
    \/ a.kind = "str" /\ \E p \in NumericStrings : p[1] = a.val

\* the exact value of a numeric amount, in thousandths
AmountMills(a) ==
    IF a.kind = "str" THEN (CHOOSE p \in NumericStrings : p[1] = a.val)[2]
    ELSE ValueMills(a)

\* 0.01 <= value <= 999999.99
InRange(a) == IsNumeric(a) /\ AmountMills(a) >= 10 /\ AmountMills(a) <= 999999990

IsPlusInfinity(a) ==
    a \in {FloatSpecialVal("inf"), DecimalVal(DecInf(0)), StrVal(<<"i", "n", "f">>)}

IsMinusInfinity(a) ==
    a \in {FloatSpecialVal("-inf"), DecimalVal(DecInf(1)),
           StrVal(<<"-", "I", "n", "f", "i", "n", "i", "t", "y">>)}

BelowRange(a) == (IsNumeric(a) /\ AmountMills(a) < 10) \/ IsMinusInfinity(a)

AboveRange(a) == (IsNumeric(a) /\ AmountMills(a) > 999999990) \/ IsPlusInfinity(a)

Raised(outcome, type) == outcome.tag = "raise" /\ outcome.value.type = type

\* a Decimal as hundredths, for a non-negative finite Decimal of exponent -2
Cents(d) == DigitsToNat(d.digits)

IsTwoDecimalAmount(d) ==
    /\ d.special = ""
    /\ d.sign = 0
    /\ d.exp = -2
    /\ Cents(d) >= 1
    /\ Cents(d) <= 99999999

\* C1: on the default registry, checkout of a member mode with an int, float,
\* Decimal or numeric string whose value lies in [0.01, 999999.99] returns a
\* result with success = true and a non-empty transaction id.
C1_ValidCheckoutSucceeds ==
    (/\ last.op = "checkout"
     /\ last.mode \in PaymentMode
     /\ InRange(last.amount))
        => /\ last.outcome.tag = "return"
           /\ last.outcome.value.success = TRUE
           /\ last.outcome.value.transaction_id.kind = "str"
           /\ Len(last.outcome.value.transaction_id.val) > 0

\* a checkout of the smallest amount, given as a string, has succeeded
C1_Witness ==
    /\ last.op = "checkout"
    /\ last.mode = Member("CREDITCARD")
    /\ last.amount = StrVal(<<"0", ".", "0", "1">>)
    /\ last.outcome.tag = "return"
    /\ last.outcome.value.success = TRUE

\* C2: checkout of a member mode with a numeric amount whose unrounded value
\* is below 0.01 or above 999999.99 fails with InvalidAmountError, also when
\* the value would round into the range.
C2_OutOfRangeRejected ==
    (/\ last.op = "checkout"
     /\ last.mode \in PaymentMode
     /\ (BelowRange(last.amount) \/ AboveRange(last.amount)))
        => Raised(last.outcome, "InvalidAmountError")

\* 0.009 and 999999.991, which round into the range, have been rejected
C2_Witness ==
    /\ last.op = "checkout"
    /\ last.mode \in PaymentMode
    /\ last.amount \in {FloatVal(9), DecimalVal(MkDec(999999991, -3))}
    /\ Raised(last.outcome, "InvalidAmountError")

\* C3: checkout of a member mode with an amount of a type that is no number
\* or string (None, list, dict), or with a string that does not parse, fails
\* with InvalidAmountError.
C3_NonNumericRejected ==
    (/\ last.op = "checkout"
     /\ last.mode \in PaymentMode
     /\ \/ last.amount \in OtherTypeInputs
        \/ last.amount.kind = "str" /\ last.amount.val \in InvalidStrings)
        => Raised(last.outcome, "InvalidAmountError")

\* a checkout with the empty string as amount has been rejected
C3_Witness ==
    /\ last.op = "checkout"
    /\ last.mode \in PaymentMode
    /\ last.amount = StrVal(<<>>)
    /\ Raised(last.outcome, "InvalidAmountError")

\* C4: checkout with a mode that is no PaymentMode member, a string spelling
\* a member name included, fails with InvalidPaymentModeError for every
\* amount.
C4_NonMemberModeRejected ==
    (last.op = "checkout" /\ last.mode \notin PaymentMode)
        => Raised(last.outcome, "InvalidPaymentModeError")

\* checkout("PAYPAL", 100) has been rejected for its mode
C4_Witness ==
    /\ last.op = "checkout"
    /\ last.mode = [kind |-> "str", val |-> "PAYPAL"]
    /\ InRange(last.amount)
    /\ Raised(last.outcome, "InvalidPaymentModeError")

\* C5: checkout reports the first failing step in the order mode, amount,
\* registry lookup: a mode that is no member gives InvalidPaymentModeError
\* whatever the amount; a member mode with an invalid amount gives
\* InvalidAmountError even when the registry has no entry for the mode;
\* ProcessorNotFoundError is raised only when mode and amount are both valid.
C5_FirstFailingStep ==
    last.op = "checkout"
        => /\ last.mode \notin PaymentMode
                  => Raised(last.outcome, "InvalidPaymentModeError")
           /\ (last.mode \in PaymentMode /\ ~InRange(last.amount))
                  => Raised(last.outcome, "InvalidAmountError")
           /\ Raised(last.outcome, "ProcessorNotFoundError")
                  => (last.mode \in PaymentMode /\ InRange(last.amount))

\* round-half-up of thousandths to hundredths: floor(v * 100 + 1/2)
HalfUpCents(mills) == (mills + 5) \div 10

\* round-half-even of thousandths to hundredths: a tie goes to the even cent
HalfEvenCents(mills) ==
    IF mills % 10 > 5 \/ (mills % 10 = 5 /\ (mills \div 10) % 2 = 1)
    THEN mills \div 10 + 1
    ELSE mills \div 10

\* C6 as stated: validate returns the value rounded to two decimals with
\* round-half-up at the third decimal, floor(v * 100 + 1/2) / 100.
C6_RoundsHalfUp ==
    (/\ last.op = "validate"
     /\ IsNumeric(last.amount)
     /\ last.outcome.tag = "return")
        => /\ IsTwoDecimalAmount(last.outcome.value)
           /\ Cents(last.outcome.value) = HalfUpCents(AmountMills(last.amount))

\* C6 as amended: validate returns the value rounded to two decimals with
\* round-half-even at the third decimal (a tie goes to the even hundredth:
\* 0.125 gives 0.12, 150.545 gives 150.54, 150.555 gives 150.56).
C6_RoundsHalfEven ==
    (/\ last.op = "validate"
     /\ IsNumeric(last.amount)
     /\ last.outcome.tag = "return")
        => /\ IsTwoDecimalAmount(last.outcome.value)
           /\ Cents(last.outcome.value) = HalfEvenCents(AmountMills(last.amount))

\* validate(0.125) has returned 0.12
C6_Witness ==
    /\ last.op = "validate"
    /\ last.amount = FloatVal(125)
    /\ last.outcome = Return(MkDec(12, -2))

\* C7: validate applied to an amount it returned succeeds and returns the
\* same amount.
C7_Idempotent ==
    last.op = "revalidate" => last.outcome = Return(last.amount.val)

\* validate has been applied again to 999999.99, the largest amount
C7_Witness ==
    /\ last.op = "revalidate"
    /\ last.amount = DecimalVal(MkDec(99999999, -2))
    /\ last.outcome.tag = "return"

\* C8: every amount checkout passes to a processor is what validate returns
\* for the raw input: a Decimal with exactly two decimals in [0.01, 999999.99].
C8_ProcessorGetsValidatedAmount ==
    \A i \in 1..Len(invocations) :
        /\ IsTwoDecimalAmount(invocations[i].amount)
        /\ Validate(last.amount) = Return(invocations[i].amount)

\* a processor has been given 999999.99 for the raw float 999999.986
C8_Witness ==
    /\ last.op = "checkout"
    /\ last.amount = FloatVal(999999986)
    /\ Len(invocations) = 1
    /\ invocations[1].amount = MkDec(99999999, -2)

\* C9: add_processor for a member mode stores the processor without raising,
\* also over an existing entry, and a later checkout of that mode with a
\* valid amount invokes the processor registered last and returns its result.
C9_LastRegisteredServes ==
    /\ (last.op = "add_processor" /\ last.mode \in PaymentMode)
           => /\ last.outcome = Return(NoneVal)
              /\ GetProcessor(processors, last.mode) = Return(last.proc)
    /\ (/\ last.op = "checkout"
        /\ last.mode \in PaymentMode
        /\ InRange(last.amount)
        /\ lastAdded[last.mode] # "")
           => /\ Len(invocations) = 1
              /\ invocations[1].proc = lastAdded[last.mode]
              /\ last.outcome =
                     ProcessPayment(lastAdded[last.mode], hashSeed,
                                    invocations[1].amount)

\* checkout(PAYPAL, a) has returned the result of the stub registered for
\* PAYPAL over the default PayPal processor
C9_Witness ==
    /\ last.op = "checkout"
    /\ last.mode = Member("PAYPAL")
    /\ lastAdded[Member("PAYPAL")] = "ApprovingStub"
    /\ last.outcome.tag = "return"
    /\ last.outcome.value.transaction_id = StrVal(<<"S", "T", "U", "B">>)

\* C10: checkout returns what the processor's process_payment returns, a
\* result with success = false included, and an exception the processor
\* raises reaches the caller as it is.
C10_ProcessorOutcomeUnchanged ==
    (last.op = "checkout" /\ invocations # <<>>)
        => /\ last.outcome =
                  ProcessPayment(invocations[1].proc, hashSeed,
                                 invocations[1].amount)
           /\ invocations[1].proc = "DecliningStub"
                  => /\ last.outcome.tag = "return"
                     /\ last.outcome.value.success = FALSE
           /\ invocations[1].proc = "RaisingStub"
                  => Raised(last.outcome, "RuntimeError")

\* the exception of a raising processor has come out of checkout
C10_Witness ==
    /\ last.op = "checkout"
    /\ Len(invocations) = 1
    /\ invocations[1].proc = "RaisingStub"
    /\ Raised(last.outcome, "RuntimeError")

\* C11: when the registry holds no entry for a member mode, checkout of that
\* mode with a valid amount fails with ProcessorNotFoundError naming the mode
\* and no processor is invoked.
C11_MissingEntryNotFound ==
    (/\ last.op = "checkout"
     /\ last.mode \in PaymentMode
     /\ InRange(last.amount)
     /\ last.mode \notin Keys(processors))
        => /\ last.outcome = Raise(ProcessorNotFoundError(last.mode.val))
           /\ invocations = <<>>

\* on an emptied registry checkout(GOOGLEPAY, a) with a valid amount has
\* failed with ProcessorNotFoundError
C11_Witness ==
    /\ processors = <<>>
    /\ last.op = "checkout"
    /\ last.mode = Member("GOOGLEPAY")
    /\ InRange(last.amount)
    /\ last.outcome = Raise(ProcessorNotFoundError("GOOGLEPAY"))

\* C12: through checkout, add_processor and get_supported_payment_modes alone
\* every PaymentMode member keeps its registry entry, so a checkout with a
\* member mode and a valid amount never fails with ProcessorNotFoundError.
C12_EntriesNeverRemoved ==
    /\ PaymentMode \subseteq Keys(processors)
    /\ (/\ last.op = "checkout"
        /\ last.mode \in PaymentMode
        /\ InRange(last.amount))
           => ~Raised(last.outcome, "ProcessorNotFoundError")

\* after a registration under a fourth key, checkout(CREDITCARD, a) with a
\* valid amount has returned a result
C12_Witness ==
    /\ Len(processors) = 4
    /\ last.op = "checkout"
    /\ last.mode = Member("CREDITCARD")
    /\ InRange(last.amount)
    /\ last.outcome.tag = "return"

\* C13: a checkout call, whatever its mode, amount and outcome, leaves the
\* mode-to-processor mapping as it was; the mapping changes only in
\* add_processor.
C13_CheckoutLeavesRegistry ==
    [][/\ last'.op = "checkout" => processors' = processors
       /\ processors' # processors => last'.op = "add_processor"]_vars

\* a checkout that returned a failed result has run on a registry that
\* add_processor had changed
C13_Witness ==
    /\ last.op = "checkout"
    /\ processors # InitialProcessors
    /\ last.outcome.tag = "return"
    /\ last.outcome.value.success = FALSE

\* C14: when several checkout calls run concurrently on one service and no
\* add_processor call overlaps them, each call ends, in every interleaving,
\* with the outcome the same call gives when it runs alone.
C14_ConcurrentAsAlone ==
    \A t \in DOMAIN threads :
        threads[t].pc = "done"
            => threads[t].outcome =
                   CheckoutRun(processors, hashSeed, threads[t].mode,
                               threads[t].amount).outcome

\* two overlapping calls for the same mode have both ended, one with a
\* result and one with InvalidAmountError
C14_Witness ==
    /\ threads # <<>>
    /\ \A t \in DOMAIN threads : threads[t].pc = "done"
    /\ threads[1].mode = Member("PAYPAL")
    /\ threads[2].mode = Member("PAYPAL")
    /\ threads[1].outcome.tag = "return"
    /\ Raised(threads[2].outcome, "InvalidAmountError")

\* the processor name and the transaction id prefix the claim gives per mode
ExpectedName(mode) ==
    CASE mode.val = "PAYPAL" -> "PayPal"
      [] mode.val = "GOOGLEPAY" -> "GooglePay"
      [] mode.val = "CREDITCARD" -> "Credit Card"

ExpectedPrefix(mode) ==
    CASE mode.val = "PAYPAL" -> <<"P", "P">>
      [] mode.val = "GOOGLEPAY" -> <<"G", "P">>
      [] mode.val = "CREDITCARD" -> <<"C", "C">>

\* an amount of so many hundredths printed with two decimals
TwoDecimalChars(cents) ==
    NatToStr(cents \div 100)
        \o <<".", DigitChar((cents \div 10) % 10), DigitChar(cents % 10)>>

\* C15: on the default registry a successful checkout(m, a) carries the
\* message 'Successfully processed <Name> payment of $<amt>' with the name of
\* the processor of m (PayPal, GooglePay, Credit Card) and the normalized
\* amount printed with two decimals, and a transaction id that starts with
\* PP, GP or CC respectively.
C15_DispatchByMode ==
    (/\ last.op = "checkout"
     /\ last.mode \in PaymentMode
     /\ last.outcome.tag = "return")
        => /\ last.outcome.value.message =
                  Message("Successfully processed {payment_type} payment of ${amount:.2f}",
                          ExpectedName(last.mode),
                          TwoDecimalChars(Cents(Validate(last.amount).value)))
           /\ SubSeq(last.outcome.value.transaction_id.val, 1, 3) =
                  ExpectedPrefix(last.mode) \o <<"_">>

\* checkout(CREDITCARD, "100.5") has returned the Credit Card message for
\* $100.50
C15_Witness ==
    /\ last.op = "checkout"
    /\ last.mode = Member("CREDITCARD")
    /\ last.amount = FloatVal(100500)
    /\ last.outcome.tag = "return"
    /\ last.outcome.value.message.payment_type = "Credit Card"
    /\ last.outcome.value.message.amount = <<"1", "0", "0", ".", "5", "0">>

\* C16: every transaction id a default processor produces for a valid amount
\* is a two-letter prefix, an underscore and exactly five decimal digits,
\* also when the hash of the amount's string is negative.
C16_TransactionIdForm ==
    (/\ last.op = "checkout"
     /\ last.outcome.tag = "return"
     /\ invocations # <<>>
     /\ invocations[1].proc \in DefaultProcessors)
        => /\ Len(last.outcome.value.transaction_id.val) = 8
           /\ SubSeq(last.outcome.value.transaction_id.val, 1, 2)
                  \in {<<"P", "P">>, <<"G", "P">>, <<"C", "C">>}
           /\ last.outcome.value.transaction_id.val[3] = "_"
           /\ \A i \in 4..8 : IsDigit(last.outcome.value.transaction_id.val[i])

\* a default processor has produced an id for an amount whose string hash is
\* negative
C16_Witness ==
    /\ last.op = "checkout"
    /\ last.outcome.tag = "return"
    /\ invocations # <<>>
    /\ invocations[1].proc \in DefaultProcessors
    /\ StrHash(hashSeed, DecimalStr(invocations[1].amount)) < 0
    /\ Len(last.outcome.value.transaction_id.val) = 8

\* C17: a default processor that meets an exception inside process_payment
\* logs an error and raises PaymentProcessingError carrying its processor
\* name; it never returns a result with success = false, so a checkout on the
\* default registry that returns has succeeded.
C17_DefaultProcessorFailuresRaise ==
    /\ (last.op = "process_payment" /\ last.proc \in DefaultProcessors)
           => /\ last.amount.kind \in {"NoneType", "str", "list"}
                     => last.outcome.tag = "raise"
              /\ last.outcome.tag = "raise"
                     => /\ last.outcome.value.type = "PaymentProcessingError"
                        /\ last.outcome.value.detail =
                               (CASE last.proc = "PayPalProcessor" -> "PayPal"
                                  [] last.proc = "GooglePayProcessor" -> "GooglePay"
                                  [] last.proc = "CreditCardProcessor" -> "Credit Card")
                        /\ \E i \in 1..Len(log) : log[i].level = "error"
              /\ last.outcome.tag = "return"
                     => last.outcome.value.success = TRUE
    /\ (last.op = "checkout" /\ last.outcome.tag = "return")
           => last.outcome.value.success = TRUE

\* CreditCardProcessor.process_payment(None) has logged an error and raised
\* PaymentProcessingError for Credit Card
C17_Witness ==
    /\ last.op = "process_payment"
    /\ last.proc = "CreditCardProcessor"
    /\ last.amount = NoneVal
    /\ Raised(last.outcome, "PaymentProcessingError")
    /\ last.outcome.value.detail = "Credit Card"
    /\ log # <<>>

\* C18: the legacy Checkout.checkout never raises: it returns True exactly
\* when the wrapped CheckoutService.checkout returns a result with
\* success = true, and False for every error, PaymentError or not.
C18_LegacyReturnsBoolean ==
    last.op = "legacy_checkout"
        => /\ last.outcome.tag = "return"
           /\ last.outcome.value.kind = "bool"
           /\ last.outcome.value.val
                  = (/\ CheckoutRun(processors, hashSeed, last.mode,
                                    last.amount).outcome.tag = "return"
                     /\ CheckoutRun(processors, hashSeed, last.mode,
                                    last.amount).outcome.value.success = TRUE)

\* the legacy checkout has returned False where the service raises an
\* exception that is no PaymentError
C18_Witness ==
    /\ last.op = "legacy_checkout"
    /\ last.outcome = Return(BoolVal(FALSE))
    /\ CheckoutRun(processors, hashSeed, last.mode, last.amount).outcome.tag = "raise"
    /\ CheckoutRun(processors, hashSeed, last.mode, last.amount).outcome.value.type
           \notin PaymentErrorTypes

\* C19: for every member m and every upper/lower-case spelling s of m.name,
\* PaymentMode.from_string(s) returns m.
C19_FromStringCaseInsensitive ==
    \A n \in PaymentModeNames :
        (/\ last.op = "from_string"
         /\ last.amount.kind = "str"
         /\ last.amount.val \in CaseVariants(MemberNameChars[n]))
            => last.outcome = Return(Member(n))

\* from_string("gOOglePay") has returned GOOGLEPAY
C19_Witness ==
    /\ last.op = "from_string"
    /\ last.amount = StrVal(<<"g", "O", "O", "g", "l", "e", "P", "a", "y">>)
    /\ last.outcome = Return(Member("GOOGLEPAY"))

\* C20 as stated: for every string that spells no member name in any case,
\* the empty string included, from_string fails with the error kind checkout
\* raises for an invalid mode, InvalidPaymentModeError, and the error lists
\* the valid mode names.
C20_FromStringInvalidPaymentMode ==
    (/\ last.op = "from_string"
     /\ last.amount.kind = "str"
     /\ last.amount.val \notin MemberSpellings)
        => /\ Raised(last.outcome, "InvalidPaymentModeError")
           /\ last.outcome.value.valid_modes = <<"PAYPAL", "GOOGLEPAY", "CREDITCARD">>

\* C20 as amended: for every such string from_string fails with ValueError,
\* which is no PaymentError, and the error carries the upper-cased input and
\* lists the valid mode names.
C20_FromStringValueError ==
    (/\ last.op = "from_string"
     /\ last.amount.kind = "str"
     /\ last.amount.val \notin MemberSpellings)
        => /\ Raised(last.outcome, "ValueError")
           /\ last.outcome.value.type \notin PaymentErrorTypes
           /\ last.outcome.value.valid_modes = <<"PAYPAL", "GOOGLEPAY", "CREDITCARD">>

\* from_string("") has failed with ValueError
C20_Witness ==
    /\ last.op = "from_string"
    /\ last.amount = StrVal(<<>>)
    /\ Raised(last.outcome, "ValueError")

\* C21: PaymentMode.is_valid(v) is true exactly when v is one of the members
\* and false for every other value, the strings that spell a member name
\* included; checkout rejects a mode exactly when is_valid does.
C21_IsValidExactlyMembers ==
    /\ last.op = "is_valid"
           => last.outcome = Return(BoolVal(last.mode \in PaymentMode))
    /\ last.op = "checkout"
           => (Raised(last.outcome, "InvalidPaymentModeError")
                  <=> last.mode \notin PaymentMode)

\* is_valid("PAYPAL") has returned False
C21_Witness ==
    /\ last.op = "is_valid"
    /\ last.mode = [kind |-> "str", val |-> "PAYPAL"]
    /\ last.outcome = Return(BoolVal(FALSE))

\* C25: for every input of an accepted type, NaN and the infinities
\* included, validate either returns a normalized amount or raises
\* InvalidAmountError, and no other exception leaves validate or a checkout
\* with a member mode.
C25_ValidateTwoOutcomes ==
    (/\ last.op \in {"validate", "checkout"}
     /\ last.op = "checkout" => last.mode \in PaymentMode
     /\ last.amount.kind \in {"int", "float", "Decimal", "str"})
        => \/ last.outcome.tag = "return"
           \/ Raised(last.outcome, "InvalidAmountError")

\* the code the claim gives for each kind of error
ExpectedCode(type) ==
    CASE type = "InvalidPaymentModeError" -> "INVALID_PAYMENT_MODE"
      [] type = "InvalidAmountError" -> "INVALID_AMOUNT"
      [] type = "ProcessorNotFoundError" -> "PROCESSOR_NOT_FOUND"
      [] type = "PaymentProcessingError" -> "PROCESSING_FAILED"

\* C22: every PaymentError the system raises carries the code of its kind,
\* INVALID_PAYMENT_MODE, INVALID_AMOUNT, PROCESSOR_NOT_FOUND or
\* PROCESSING_FAILED; the four codes differ from one another and none is
\* missing.
C22_ErrorsCarryCodes ==
    /\ (last.outcome.tag = "raise" /\ last.outcome.value.type \in PaymentErrorTypes)
           => /\ last.outcome.value.error_code = ExpectedCode(last.outcome.value.type)
              /\ last.outcome.value.error_code # ""
    /\ Cardinality({InvalidPaymentModeError("").error_code,
                    InvalidAmountError("").error_code,
                    ProcessorNotFoundError("").error_code,
                    PaymentProcessingError("").error_code}) = 4

\* a checkout on an emptied registry has raised an error whose code is
\* PROCESSOR_NOT_FOUND
C22_Witness ==
    /\ last.op = "checkout"
    /\ Raised(last.outcome, "ProcessorNotFoundError")
    /\ last.outcome.value.error_code = "PROCESSOR_NOT_FOUND"

\* C23: get_supported_payment_modes returns the modes that have a registered
\* processor, each once: PAYPAL, GOOGLEPAY and CREDITCARD on the registry a
\* service starts with, and in general a mode is in the list exactly when
\* the registry lookup for it succeeds.
C23_SupportedModesAreKeys ==
    last.op = "get_supported_payment_modes"
        => /\ \A i, j \in DOMAIN last.outcome.value.val :
                  i # j => last.outcome.value.val[i] # last.outcome.value.val[j]
           /\ \A m \in HashableModes :
                  (\E i \in DOMAIN last.outcome.value.val :
                       last.outcome.value.val[i] = m)
                      <=> GetProcessor(processors, m).tag = "return"
           /\ processors = InitialProcessors
                  => last.outcome.value.val =
                         <<Member("PAYPAL"), Member("GOOGLEPAY"), Member("CREDITCARD")>>

\* on a registry emptied and refilled for PAYPAL alone the list returned is
\* PAYPAL
C23_Witness ==
    /\ last.op = "get_supported_payment_modes"
    /\ last.outcome.value.val = <<Member("PAYPAL")>>
    /\ lastAdded[Member("PAYPAL")] # ""

\* C26: a checkout call invokes process_payment at most once and only after
\* the mode check, the amount validation and the registry lookup have
\* succeeded: a checkout failing with InvalidPaymentModeError,
\* InvalidAmountError or ProcessorNotFoundError invokes no processor, and one
\* that passes all three invokes the processor registered for the mode once.
C26_ProcessorInvokedOnce ==
    last.op = "checkout"
        => /\ Len(invocations) <= 1
           /\ (\/ Raised(last.outcome, "InvalidPaymentModeError")
               \/ Raised(last.outcome, "InvalidAmountError")
               \/ Raised(last.outcome, "ProcessorNotFoundError"))
                  => invocations = <<>>
           /\ invocations # <<>>
                  => /\ last.mode \in PaymentMode
                     /\ InRange(last.amount)
                     /\ last.mode \in Keys(processors)
           /\ (/\ last.mode \in PaymentMode
               /\ InRange(last.amount)
               /\ last.mode \in Keys(processors))
                  => /\ Len(invocations) = 1
                     /\ invocations[1].proc = Lookup(processors, last.mode)

\* checkout(GOOGLEPAY, a) has invoked the GooglePay processor once on a
\* registry whose PAYPAL entry is a raising stub
C26_Witness ==
    /\ last.op = "checkout"
    /\ last.mode = Member("GOOGLEPAY")
    /\ Len(invocations) = 1
    /\ invocations[1].proc = "GooglePayProcessor"
    /\ lastAdded[Member("PAYPAL")] = "RaisingStub"

\* C27: after any sequence of public operations every key of the registry
\* is a PaymentMode member; add_processor with a mode that is no member adds
\* no entry.
C27_KeysAreMembers == Keys(processors) \subseteq PaymentMode

\* C28: add_processor(m, p) changes the entry of m alone: the lookup of every
\* other mode gives the same before and after, and when m had an entry the
\* list of supported modes is unchanged.
C28_AddChangesOneEntry ==
    [][last'.op = "add_processor"
         => /\ \A k \in HashableModes \ {last'.mode} :
                   GetProcessor(processors', k) = GetProcessor(processors, k)
            /\ last'.mode \in Keys(processors)
                   => SupportedModes(processors') = SupportedModes(processors)]_vars

\* add_processor has replaced the PAYPAL entry of a registry of four keys
C28_Witness ==
    /\ last.op = "add_processor"
    /\ last.mode = Member("PAYPAL")
    /\ GetProcessor(processors, last.mode) = Return(last.proc)
    /\ Len(processors) = 4
    /\ GetProcessor(processors, Member("CREDITCARD")) = Return("CreditCardProcessor")

\* C24: on the default registry two checkouts made in one process with the
\* same mode and with amounts that normalize to the same two-decimal value,
\* in whatever representation and whatever calls came between, return the
\* same message and the same transaction id.
C24_ResultDependsOnModeAndAmount ==
    (/\ last.op = "checkout"
     /\ earlier.op = "checkout"
     /\ processors = InitialProcessors
     /\ last.mode = earlier.mode
     /\ InRange(last.amount)
     /\ InRange(earlier.amount)
     /\ HalfEvenCents(AmountMills(last.amount))
            = HalfEvenCents(AmountMills(earlier.amount)))
        => /\ last.outcome.tag = "return"
           /\ earlier.outcome.tag = "return"
           /\ last.outcome.value.message = earlier.outcome.value.message
           /\ last.outcome.value.transaction_id
                  = earlier.outcome.value.transaction_id

\* checkout(PAYPAL, '100.00') has returned the transaction id an earlier
\* checkout(PAYPAL, 100) returned
C24_Witness ==
    /\ last.op = "checkout"
    /\ earlier.op = "checkout"
    /\ last.mode = Member("PAYPAL")
    /\ earlier.mode = Member("PAYPAL")
    /\ earlier.amount = IntVal(100)
    /\ last.amount = StrVal(<<"1", "0", "0", ".", "0", "0">>)
    /\ last.outcome.tag = "return"
    /\ last.outcome.value.transaction_id = earlier.outcome.value.transaction_id

\* the add_processor call that runs beside the checkout threads
ConcurrentAddCall == IF pending.op = "add_processor" THEN pending ELSE last

\* C29: when add_processor(m, p_new) runs concurrently with checkout(m, a),
\* m and a valid, on a registry holding p_old for m, the checkout is served
\* by p_old or by p_new in every interleaving, and never fails with
\* ProcessorNotFoundError or with a KeyError of the lookup.
C29_ServedByOldOrNew ==
    \A t \in DOMAIN threads :
        (/\ threads[t].pc = "done"
         /\ threads[t].mode = ConcurrentAddCall.mode
         /\ InRange(threads[t].amount))
            => /\ \/ threads[t].processor = Lookup(InitialProcessors, threads[t].mode)
                  \/ /\ threads[t].processor = ConcurrentAddCall.proc
                     /\ pending = NoCall
               /\ threads[t].outcome =
                      ProcessPayment(threads[t].processor, hashSeed,
                                     Validate(threads[t].amount).value)
               /\ ~Raised(threads[t].outcome, "ProcessorNotFoundError")
               /\ ~Raised(threads[t].outcome, "KeyError")

\* of two checkouts of PAYPAL one has been served by the processor of the
\* constructor and one by the processor add_processor stored meanwhile
C29_Witness ==
    /\ threads # <<>>
    /\ last.op = "add_processor"
    /\ last.mode = Member("PAYPAL")
    /\ \A t \in {1, 2} : threads[t].pc = "done" /\ threads[t].mode = last.mode
    /\ threads[1].processor = "ApprovingStub"
    /\ threads[2].processor = "PayPalProcessor"
    /\ threads[1].outcome.tag = "return"
    /\ threads[2].outcome.tag = "return"

\* C30: add_processor on one CheckoutService changes neither the supported
\* modes nor the checkout results of another CheckoutService or of a legacy
\* Checkout: both give what a default registry gives.
C30_InstancesIndependent ==
    /\ other = InitialProcessors
    /\ last.op = "other_checkout"
           => last.outcome = CheckoutRun(InitialProcessors, hashSeed, last.mode,
                                         last.amount).outcome
    /\ last.op = "other_legacy_checkout"
           => last.outcome =
                  LegacyCheckoutRun(CheckoutRun(InitialProcessors, hashSeed,
                                                last.mode, last.amount).outcome)
    /\ last.op = "other_get_supported_payment_modes"
           => last.outcome = Return(SupportedModes(InitialProcessors))

\* after add_processor(PAYPAL, raising stub) on the first service the second
\* one has paid by PayPal
C30_Witness ==
    /\ last.op = "other_checkout"
    /\ last.mode = Member("PAYPAL")
    /\ Lookup(processors, Member("PAYPAL")) = "RaisingStub"
    /\ last.outcome.tag = "return"
    /\ last.outcome.value.success

====
